---- MODULE Spec2Model ----
(***************************************************************************)
(* FundTransferApp: handleCreateAccount and handleTransfer against the     *)
(* PostgreSQL tables accounts(id, balance, last_updated) and               *)
(* transactions(id, from_account, to_account, amount, created_at).         *)
(*                                                                         *)
(* Database semantics used by the handlers (PostgreSQL, default isolation  *)
(* READ COMMITTED):                                                        *)
(*  - NOW() is the start time of the current transaction, so every UPDATE  *)
(*    of one transaction writes the same last_updated, and two             *)
(*    transactions that start within one clock reading write equal stamps; *)
(*  - a SELECT sees the committed rows plus the transaction's own writes;  *)
(*  - an UPDATE whose WHERE matches a row that another open transaction    *)
(*    has written waits for that transaction to end and then re-evaluates  *)
(*    the WHERE on the row as committed; a wait cycle is broken by the     *)
(*    server with a "deadlock detected" error for one of the waiters;      *)
(*  - the rows written by a transaction become visible at COMMIT and are   *)
(*    discarded by ROLLBACK.                                               *)
(* Balances and amounts are whole currency units: NUMERIC arithmetic is    *)
(* exact and the float64 copies the handler compares are exact for them.   *)
(***************************************************************************)
EXTENDS Integers, Sequences, FiniteSets, TLC

\* ---- bounds ----
MaxCreates == 2      \* POST /accounts requests accepted

\* ---- program constants ----
maxRetries == 3

\* ---- input domains ----
Ids == {1, 2}
InitBalances == {0, 3}
Amounts == {-1, 2}
Req == {1, 2, 3, 4}  \* request slots (goroutines serving POST /transactions)
Clients == {1, 2}    \* slots that take arbitrary requests in Spec and SpecFault

\* response codes written by writeJSONError / writeJSONSuccess
NoResult == 0
CodeAccountExists == 1003
CodeBeginFailed == 1013
CodeSourceNotFound == 1014
CodeInsufficientFunds == 1015
CodeDebitConflict == 1016
CodeDestNotFound == 1017
CodeCreditConflict == 1018
CodeLogFailed == 1019
CodeCommitFailed == 1020
CodeAccountCreated == 2001
CodeTransferOK == 2003

VARIABLES
  accounts,      \* committed rows of table accounts: id -> row
  transactions,  \* committed rows of table transactions, in insert order
  now,           \* latest clock reading handed out by the server
  creates,       \* POST /accounts requests handled so far
  lastCreate,    \* response code of the latest POST /accounts
  pc,            \* position of each transfer request in handleTransfer
  attempt,       \* loop variable attempt
  tr,            \* decoded TransferRequest
  from,          \* local variable from (Account read at line 175)
  to,            \* local variable to (Account read at line 199)
  txStart,       \* NOW() of the request's current transaction
  staged,        \* uncommitted account rows written by the open transaction
  txRows,        \* uncommitted transactions rows inserted by the open transaction
  result         \* response code written for the request, NoResult if none

vars == <<accounts, transactions, now, creates, lastCreate, pc, attempt,
          tr, from, to, txStart, staged, txRows, result>>

NoRow == [exists |-> FALSE, balance |-> 0, version |-> 0]
Row(b, v) == [exists |-> TRUE, balance |-> b, version |-> v]
NoStage == [i \in Ids |-> NoRow]
NoTr == [FromAccountID |-> 0, ToAccountID |-> 0, Amount |-> 0]
LogRow(t) == [from_account |-> t.FromAccountID, to_account |-> t.ToAccountID,
              amount |-> t.Amount]

\* the request has a transaction open (between Begin and Commit/Rollback)
TxOpen(r) == pc[r] \in {"read_from", "debit", "read_to", "credit", "insert", "commit"}

\* row of account id as a statement of r's transaction sees it
Visible(r, id) == IF staged[r][id].exists THEN staged[r][id] ELSE accounts[id]

\* another open transaction holds the row lock of account id
LockedByOther(r, id) == \E s \in Req \ {r} : staged[s][id].exists

Holder(r, id) == CHOOSE s \in Req \ {r} : staged[s][id].exists

Init ==
  /\ accounts = [i \in Ids |-> NoRow]
  /\ transactions = << >>
  /\ now = 0
  /\ creates = 0
  /\ lastCreate = NoResult
  /\ pc = [r \in Req |-> "idle"]
  /\ attempt = [r \in Req |-> 0]
  /\ tr = [r \in Req |-> NoTr]
  /\ from = [r \in Req |-> NoRow]
  /\ to = [r \in Req |-> NoRow]
  /\ txStart = [r \in Req |-> 0]
  /\ staged = [r \in Req |-> NoStage]
  /\ txRows = [r \in Req |-> << >>]
  /\ result = [r \in Req |-> NoResult]


\* ---- helpers ----

\* some open transaction holds the row lock of account id
Locked(id) == \E s \in Req : staged[s][id].exists

\* deferred tx.Rollback() at return / explicit tx.Rollback(): the handler is
\* left with response code c and its transaction's writes are discarded
Return(r, c) ==
  /\ pc' = [pc EXCEPT ![r] = "done"]
  /\ result' = [result EXCEPT ![r] = c]
  /\ staged' = [staged EXCEPT ![r] = NoStage]
  /\ txRows' = [txRows EXCEPT ![r] = << >>]
  /\ from' = [from EXCEPT ![r] = NoRow]
  /\ to' = [to EXCEPT ![r] = NoRow]
  /\ txStart' = [txStart EXCEPT ![r] = 0]

\* variant: the loop continues without rolling the transaction back
RetryNoRollback(r) ==
  /\ pc' = [pc EXCEPT ![r] = "begin"]
  /\ attempt' = [attempt EXCEPT ![r] = attempt[r] + 1]
  /\ UNCHANGED <<staged, txRows, from, to>>

\* tx.Rollback(); time.Sleep(50ms); continue  (lines 193-195, 212-214)
Retry(r) ==
  /\ pc' = [pc EXCEPT ![r] = "begin"]
  /\ attempt' = [attempt EXCEPT ![r] = attempt[r] + 1]
  /\ staged' = [staged EXCEPT ![r] = NoStage]
  /\ txRows' = [txRows EXCEPT ![r] = << >>]
  /\ from' = [from EXCEPT ![r] = NoRow]
  /\ to' = [to EXCEPT ![r] = NoRow]

\* WHERE id = $2 AND last_updated = $3 evaluated on the row r's statement sees
Matches(r, id, expected) ==
  /\ Visible(r, id).exists
  /\ Visible(r, id).version = expected

\* the UPDATE with the sign of the amount lost
UpdatedUnsigned(r, id, delta) ==
  Row(Visible(r, id).balance + (IF delta < 0 THEN 0 - delta ELSE delta), txStart[r])

\* UPDATE accounts SET balance = balance + delta, last_updated = NOW()
Updated(r, id, delta) == Row(Visible(r, id).balance + delta, txStart[r])

\* the account row and expected stamp of the UPDATE r is about to run
Wanted(r) == IF pc[r] = "debit" THEN tr[r].FromAccountID ELSE tr[r].ToAccountID
Expected(r) == IF pc[r] = "debit" THEN from[r].version ELSE to[r].version

\* r's UPDATE waits for the transaction that holds the row lock
Blocked(r) ==
  /\ pc[r] \in {"debit", "credit"}
  /\ Matches(r, Wanted(r), Expected(r))
  /\ LockedByOther(r, Wanted(r))

WaitsFor(r) == Holder(r, Wanted(r))

RECURSIVE Reaches(_, _, _)
Reaches(r, s, k) ==
  /\ k > 0
  /\ Blocked(s)
  /\ (WaitsFor(s) = r \/ Reaches(r, WaitsFor(s), k - 1))

\* r is in a cycle of lock waits
InCycle(r) == Reaches(r, r, Cardinality(Req))

\* r has rolled an attempt back and waits to begin the next one; txStart[r] is
\* still the NOW() of the attempt it rolled back
AwaitsRetry(r) == pc[r] = "begin" /\ attempt[r] > 1

\* some committed row, open transaction, Account read by an open transaction or
\* request waiting to retry carries the clock reading v
Held(v) ==
  \/ \E i \in Ids : accounts[i].exists /\ accounts[i].version = v
  \/ \E s \in Req : (TxOpen(s) \/ AwaitsRetry(s)) /\ txStart[s] = v
  \/ \E s \in Req : from[s].exists /\ from[s].version = v
  \/ \E s \in Req : to[s].exists /\ to[s].version = v

\* readings NOW() can return at this point: the latest reading again (the clock
\* has not moved since) or a later one. Readings are only ever compared for
\* equality, so a latest reading that nothing carries stands for any later one.
Readings == IF Held(now) THEN {now, now + 1} ELSE {now}

\* ---- POST /accounts ----

\* variant: the INSERT replaces the row of an id that is already there
handleCreateAccountUpsert(id, bal) ==
  /\ creates < MaxCreates
  /\ ~Locked(id)
  /\ lastCreate' = CodeAccountCreated
  /\ \E t \in Readings :
       /\ now' = t
       /\ accounts' = [accounts EXCEPT ![id] = Row(bal, t)]
  /\ creates' = creates + 1
  /\ UNCHANGED <<transactions, pc, attempt, tr, from, to, txStart,
                 staged, txRows, result>>

\* INSERT INTO accounts (id, balance, last_updated) VALUES ($1, $2, NOW())
\* in autocommit; the unique-key check waits for an open writer of the row
handleCreateAccount(id, bal) ==
  /\ creates < MaxCreates
  /\ ~Locked(id)
  /\ IF accounts[id].exists
       THEN /\ lastCreate' = CodeAccountExists
            /\ UNCHANGED <<accounts, now>>
       ELSE /\ lastCreate' = CodeAccountCreated
            /\ \E t \in Readings :
                 /\ now' = t
                 /\ accounts' = [accounts EXCEPT ![id] = Row(bal, t)]
  /\ creates' = creates + 1
  /\ UNCHANGED <<transactions, pc, attempt, tr, from, to, txStart,
                 staged, txRows, result>>

\* ---- POST /transactions ----

\* decode the body into tr and enter the retry loop with attempt = 1
StartTransfer(r, f, t, a) ==
  /\ pc[r] = "idle"
  /\ r \in Clients
  /\ \A s \in Clients : s < r => pc[s] # "idle"
  /\ tr' = [tr EXCEPT ![r] = [FromAccountID |-> f, ToAccountID |-> t, Amount |-> a]]
  /\ attempt' = [attempt EXCEPT ![r] = 1]
  /\ pc' = [pc EXCEPT ![r] = "begin"]
  /\ UNCHANGED <<accounts, transactions, now, creates, lastCreate, from, to,
                 txStart, staged, txRows, result>>

\* tx, err := a.DB.Begin(): fixes NOW() of the transaction. A retry begins at
\* least 50ms after the previous attempt began, so its reading is later than
\* the one of the previous attempt; it may be the reading of anything else
\* that happens within the same microsecond, another retry included.
Begin(r) ==
  /\ pc[r] = "begin"
  /\ \E t \in Readings :
       /\ (AwaitsRetry(r) /\ now = txStart[r]) => t > now
       /\ now' = t
       /\ txStart' = [txStart EXCEPT ![r] = t]
  /\ pc' = [pc EXCEPT ![r] = "read_from"]
  /\ UNCHANGED <<accounts, transactions, creates, lastCreate, attempt,
                 tr, from, to, staged, txRows, result>>

\* the comparison off by one
InsufficientOffByOne(r) == Visible(r, tr[r].FromAccountID).balance + 1 < tr[r].Amount

\* from.Balance < tr.Amount (line 181), on the row the SELECT of line 175 returns
Insufficient(r) == Visible(r, tr[r].FromAccountID).balance < tr[r].Amount

\* SELECT ... WHERE id = FromAccountID finds no row: 1014
SourceNotFound(r) ==
  /\ pc[r] = "read_from"
  /\ ~Visible(r, tr[r].FromAccountID).exists
  /\ Return(r, CodeSourceNotFound)
  /\ UNCHANGED <<accounts, transactions, now, creates, lastCreate, attempt, tr>>

\* insufficient funds treated like a conflict: retried while attempts remain
InsufficientFundsRetries(r) ==
  /\ pc[r] = "read_from"
  /\ Visible(r, tr[r].FromAccountID).exists
  /\ Insufficient(r)
  /\ IF attempt[r] < maxRetries
       THEN /\ Retry(r)
            /\ UNCHANGED <<txStart, result>>
       ELSE /\ Return(r, CodeInsufficientFunds)
            /\ UNCHANGED attempt
  /\ UNCHANGED <<accounts, transactions, now, creates, lastCreate, tr>>

\* from.Balance < tr.Amount: 1015
InsufficientFunds(r) ==
  /\ pc[r] = "read_from"
  /\ Visible(r, tr[r].FromAccountID).exists
  /\ Insufficient(r)
  /\ Return(r, CodeInsufficientFunds)
  /\ UNCHANGED <<accounts, transactions, now, creates, lastCreate, attempt, tr>>

\* the row is scanned into from and covers the amount
ReadFrom(r) ==
  /\ pc[r] = "read_from"
  /\ Visible(r, tr[r].FromAccountID).exists
  /\ ~Insufficient(r)
  /\ from' = [from EXCEPT ![r] = Visible(r, tr[r].FromAccountID)]
  /\ pc' = [pc EXCEPT ![r] = "debit"]
  /\ UNCHANGED <<accounts, transactions, now, creates, lastCreate,
                 attempt, tr, to, txStart, staged, txRows, result>>

\* variant: the UPDATE writes the balance the attempt read minus the amount
\* instead of subtracting from the row's current balance
DebitFromRead(r) ==
  /\ pc[r] = "debit"
  /\ Matches(r, tr[r].FromAccountID, from[r].version)
  /\ ~LockedByOther(r, tr[r].FromAccountID)
  /\ staged' = [staged EXCEPT ![r][tr[r].FromAccountID] =
                  Row(from[r].balance - tr[r].Amount, txStart[r])]
  /\ pc' = [pc EXCEPT ![r] = "read_to"]
  /\ UNCHANGED <<accounts, transactions, now, creates, lastCreate,
                 attempt, tr, from, to, txStart, txRows, result>>

\* UPDATE ... balance - $1 ... WHERE id = $2 AND last_updated = $3: one row
Debit(r) ==
  /\ pc[r] = "debit"
  /\ Matches(r, tr[r].FromAccountID, from[r].version)
  /\ ~LockedByOther(r, tr[r].FromAccountID)
  /\ staged' = [staged EXCEPT ![r][tr[r].FromAccountID] =
                  Updated(r, tr[r].FromAccountID, 0 - tr[r].Amount)]
  /\ pc' = [pc EXCEPT ![r] = "read_to"]
  /\ UNCHANGED <<accounts, transactions, now, creates, lastCreate,
                 attempt, tr, from, to, txStart, txRows, result>>

\* rowsAffected == 0 and attempt < maxRetries
DebitConflictRetry(r) ==
  /\ pc[r] = "debit"
  /\ ~Matches(r, tr[r].FromAccountID, from[r].version)
  /\ attempt[r] < maxRetries
  /\ Retry(r)
  /\ UNCHANGED <<accounts, transactions, now, creates, lastCreate,
                 tr, txStart, result>>

\* the exhausted debit answered as a success
DebitConflictFinalSilent(r) ==
  /\ pc[r] = "debit"
  /\ ~Matches(r, tr[r].FromAccountID, from[r].version)
  /\ attempt[r] = maxRetries
  /\ Return(r, CodeTransferOK)
  /\ UNCHANGED <<accounts, transactions, now, creates, lastCreate, attempt, tr>>

\* rowsAffected == 0 and attempt == maxRetries: 1016
DebitConflictFinal(r) ==
  /\ pc[r] = "debit"
  /\ ~Matches(r, tr[r].FromAccountID, from[r].version)
  /\ attempt[r] = maxRetries
  /\ Return(r, CodeDebitConflict)
  /\ UNCHANGED <<accounts, transactions, now, creates, lastCreate, attempt, tr>>

\* 1017 answered after committing the transaction instead of rolling it back
DestNotFoundKeepsDebit(r) ==
  /\ pc[r] = "read_to"
  /\ ~Visible(r, tr[r].ToAccountID).exists
  /\ accounts' = [i \in Ids |-> IF staged[r][i].exists THEN staged[r][i] ELSE accounts[i]]
  /\ Return(r, CodeDestNotFound)
  /\ UNCHANGED <<transactions, now, creates, lastCreate, attempt, tr>>

\* SELECT ... WHERE id = ToAccountID finds no row: 1017
DestNotFound(r) ==
  /\ pc[r] = "read_to"
  /\ ~Visible(r, tr[r].ToAccountID).exists
  /\ Return(r, CodeDestNotFound)
  /\ UNCHANGED <<accounts, transactions, now, creates, lastCreate, attempt, tr>>

\* variant: the destination row is read outside the attempt's transaction
ReadToOutsideTx(r) ==
  /\ pc[r] = "read_to"
  /\ accounts[tr[r].ToAccountID].exists
  /\ to' = [to EXCEPT ![r] = accounts[tr[r].ToAccountID]]
  /\ pc' = [pc EXCEPT ![r] = "credit"]
  /\ UNCHANGED <<accounts, transactions, now, creates, lastCreate,
                 attempt, tr, from, txStart, staged, txRows, result>>

\* tx.QueryRow(SELECT ... WHERE id = tr.ToAccountID).Scan(&to...): the row as
\* the transaction sees it, its own debit included
ReadTo(r) ==
  /\ pc[r] = "read_to"
  /\ Visible(r, tr[r].ToAccountID).exists
  /\ to' = [to EXCEPT ![r] = Visible(r, tr[r].ToAccountID)]
  /\ pc' = [pc EXCEPT ![r] = "credit"]
  /\ UNCHANGED <<accounts, transactions, now, creates, lastCreate,
                 attempt, tr, from, txStart, staged, txRows, result>>

\* UPDATE ... balance + $1 ... WHERE id = $2 AND last_updated = $3: one row
Credit(r) ==
  /\ pc[r] = "credit"
  /\ Matches(r, tr[r].ToAccountID, to[r].version)
  /\ ~LockedByOther(r, tr[r].ToAccountID)
  /\ staged' = [staged EXCEPT ![r][tr[r].ToAccountID] =
                  Updated(r, tr[r].ToAccountID, tr[r].Amount)]
  /\ pc' = [pc EXCEPT ![r] = "insert"]
  /\ UNCHANGED <<accounts, transactions, now, creates, lastCreate,
                 attempt, tr, from, to, txStart, txRows, result>>

CreditConflictRetry(r) ==
  /\ pc[r] = "credit"
  /\ ~Matches(r, tr[r].ToAccountID, to[r].version)
  /\ attempt[r] < maxRetries
  /\ Retry(r)
  /\ UNCHANGED <<accounts, transactions, now, creates, lastCreate,
                 tr, txStart, result>>

\* 1018 answered after committing the transaction instead of rolling it back
CreditConflictFinalKeepsDebit(r) ==
  /\ pc[r] = "credit"
  /\ ~Matches(r, tr[r].ToAccountID, to[r].version)
  /\ attempt[r] = maxRetries
  /\ accounts' = [i \in Ids |-> IF staged[r][i].exists THEN staged[r][i] ELSE accounts[i]]
  /\ Return(r, CodeCreditConflict)
  /\ UNCHANGED <<transactions, now, creates, lastCreate, attempt, tr>>

\* 1018
CreditConflictFinal(r) ==
  /\ pc[r] = "credit"
  /\ ~Matches(r, tr[r].ToAccountID, to[r].version)
  /\ attempt[r] = maxRetries
  /\ Return(r, CodeCreditConflict)
  /\ UNCHANGED <<accounts, transactions, now, creates, lastCreate, attempt, tr>>

\* INSERT INTO transactions (from_account, to_account, amount)
Insert(r) ==
  /\ pc[r] = "insert"
  /\ txRows' = [txRows EXCEPT ![r] = Append(txRows[r], LogRow(tr[r]))]
  /\ pc' = [pc EXCEPT ![r] = "commit"]
  /\ UNCHANGED <<accounts, transactions, now, creates, lastCreate,
                 attempt, tr, from, to, txStart, staged, result>>

\* tx.Commit() and the 2003 response
Commit(r) ==
  /\ pc[r] = "commit"
  /\ accounts' = [i \in Ids |-> IF staged[r][i].exists THEN staged[r][i] ELSE accounts[i]]
  /\ transactions' = transactions \o txRows[r]
  /\ Return(r, CodeTransferOK)
  /\ UNCHANGED <<now, creates, lastCreate, attempt, tr>>

\* the server ends a lock-wait cycle with "deadlock detected" for r: tx.Exec
\* returns (nil, err), result.RowsAffected() (line 187 / 206) dereferences the
\* nil result and the handler panics; the deferred Rollback runs and net/http
\* closes the connection without a response
DeadlockAbort(r) ==
  /\ Blocked(r)
  /\ InCycle(r)
  /\ Return(r, NoResult)
  /\ UNCHANGED <<accounts, transactions, now, creates, lastCreate, attempt, tr>>

Next ==
  \/ \E id \in Ids, bal \in InitBalances : handleCreateAccount(id, bal)
  \/ \E r \in Req, f \in Ids, t \in Ids, a \in Amounts : StartTransfer(r, f, t, a)
  \/ \E r \in Req : Begin(r)
  \/ \E r \in Req : SourceNotFound(r)
  \/ \E r \in Req : InsufficientFunds(r)
  \/ \E r \in Req : ReadFrom(r)
  \/ \E r \in Req : Debit(r)
  \/ \E r \in Req : DebitConflictRetry(r)
  \/ \E r \in Req : DestNotFound(r)
  \/ \E r \in Req : ReadTo(r)
  \/ \E r \in Req : Credit(r)
  \/ \E r \in Req : CreditConflictRetry(r)
  \/ \E r \in Req : Insert(r)
  \/ \E r \in Req : Commit(r)
  \/ \E r \in Req : DeadlockAbort(r)

Spec == Init /\ [][Next]_vars


\* ---- failures of the database connection ----

\* a.DB.Begin() returns an error: 1013
FaultBegin(r) ==
  /\ pc[r] = "begin"
  /\ Return(r, CodeBeginFailed)
  /\ UNCHANGED <<accounts, transactions, now, creates, lastCreate, attempt, tr>>

\* the SELECT of the source row returns an error: reported as 1014
FaultSelectFrom(r) ==
  /\ pc[r] = "read_from"
  /\ Return(r, CodeSourceNotFound)
  /\ UNCHANGED <<accounts, transactions, now, creates, lastCreate, attempt, tr>>

\* the SELECT of the destination row returns an error: reported as 1017
FaultSelectTo(r) ==
  /\ pc[r] = "read_to"
  /\ Return(r, CodeDestNotFound)
  /\ UNCHANGED <<accounts, transactions, now, creates, lastCreate, attempt, tr>>

\* tx.Exec of an UPDATE returns (nil, err): result.RowsAffected() panics
FaultExec(r) ==
  /\ pc[r] \in {"debit", "credit"}
  /\ Return(r, NoResult)
  /\ UNCHANGED <<accounts, transactions, now, creates, lastCreate, attempt, tr>>

\* the INSERT into transactions returns an error: 1019
FaultInsert(r) ==
  /\ pc[r] = "insert"
  /\ Return(r, CodeLogFailed)
  /\ UNCHANGED <<accounts, transactions, now, creates, lastCreate, attempt, tr>>

\* tx.Commit() returns an error and the server has not committed: 1020
FaultCommit(r) ==
  /\ pc[r] = "commit"
  /\ Return(r, CodeCommitFailed)
  /\ UNCHANGED <<accounts, transactions, now, creates, lastCreate, attempt, tr>>

\* tx.Commit() returns an error although the server has executed COMMIT (the
\* connection fails before the acknowledgement arrives): the debit, the credit
\* and the log row are committed and the response is 1020
FaultCommitApplied(r) ==
  /\ pc[r] = "commit"
  /\ accounts' = [i \in Ids |-> IF staged[r][i].exists THEN staged[r][i] ELSE accounts[i]]
  /\ transactions' = transactions \o txRows[r]
  /\ Return(r, CodeCommitFailed)
  /\ UNCHANGED <<now, creates, lastCreate, attempt, tr>>

NextFault ==
  \/ Next
  \/ \E r \in Req : FaultBegin(r)
  \/ \E r \in Req : FaultSelectFrom(r)
  \/ \E r \in Req : FaultSelectTo(r)
  \/ \E r \in Req : FaultExec(r)
  \/ \E r \in Req : FaultInsert(r)
  \/ \E r \in Req : FaultCommit(r)
  \/ \E r \in Req : FaultCommitApplied(r)

SpecFault == Init /\ [][NextFault]_vars

\* ---- two debits of one account that covers only one of them ----

DoubleTr == [FromAccountID |-> 1, ToAccountID |-> 2, Amount |-> 2]

\* both accounts were created (account 1 with 3, account 2 with 0) and both
\* clients posted a transfer of 2 from account 1 to account 2
InitDouble ==
  /\ accounts = [i \in Ids |-> IF i = 1 THEN Row(3, 0) ELSE Row(0, 0)]
  /\ transactions = << >>
  /\ now = 0
  /\ creates = MaxCreates
  /\ lastCreate = CodeAccountCreated
  /\ pc = [r \in Req |-> IF r \in Clients THEN "begin" ELSE "idle"]
  /\ attempt = [r \in Req |-> IF r \in Clients THEN 1 ELSE 0]
  /\ tr = [r \in Req |-> IF r \in Clients THEN DoubleTr ELSE NoTr]
  /\ from = [r \in Req |-> NoRow]
  /\ to = [r \in Req |-> NoRow]
  /\ txStart = [r \in Req |-> 0]
  /\ staged = [r \in Req |-> NoStage]
  /\ txRows = [r \in Req |-> << >>]
  /\ result = [r \in Req |-> NoResult]

NextDouble ==
  \/ \E r \in Req : Begin(r)
  \/ \E r \in Req : InsufficientFunds(r)
  \/ \E r \in Req : ReadFrom(r)
  \/ \E r \in Req : Debit(r)
  \/ \E r \in Req : DebitConflictRetry(r)
  \/ \E r \in Req : ReadTo(r)
  \/ \E r \in Req : Credit(r)
  \/ \E r \in Req : Insert(r)
  \/ \E r \in Req : Commit(r)

SpecDouble == InitDouble /\ [][NextDouble]_vars

\* ---- every slot busy on the same accounts ----

HotBalance == 2 * Cardinality(Req)
HotInputs == {[FromAccountID |-> 1, ToAccountID |-> 2, Amount |-> 2],
              [FromAccountID |-> 2, ToAccountID |-> 2, Amount |-> 2]}

\* both accounts hold enough for every request; each request either moves 2
\* from account 1 to account 2 or moves 2 from account 2 to itself
InitHot ==
  /\ accounts = [i \in Ids |-> Row(HotBalance, 0)]
  /\ transactions = << >>
  /\ now = 0
  /\ creates = MaxCreates
  /\ lastCreate = CodeAccountCreated
  /\ pc = [r \in Req |-> "begin"]
  /\ attempt = [r \in Req |-> 1]
  /\ tr \in [Req -> HotInputs]
  /\ tr[1].FromAccountID = 1
  /\ \A r \in Req, s \in Req : (1 < r /\ 1 < s) => tr[r] = tr[s]
  /\ from = [r \in Req |-> NoRow]
  /\ to = [r \in Req |-> NoRow]
  /\ txStart = [r \in Req |-> 0]
  /\ staged = [r \in Req |-> NoStage]
  /\ txRows = [r \in Req |-> << >>]
  /\ result = [r \in Req |-> NoResult]

NextHot ==
  \/ \E r \in Req : Begin(r)
  \/ \E r \in Req : ReadFrom(r)
  \/ \E r \in Req : Debit(r)
  \/ \E r \in Req : DebitConflictRetry(r)
  \/ \E r \in Req : DebitConflictFinal(r)
  \/ \E r \in Req : ReadTo(r)
  \/ \E r \in Req : Credit(r)
  \/ \E r \in Req : CreditConflictRetry(r)
  \/ \E r \in Req : CreditConflictFinal(r)
  \/ \E r \in Req : Insert(r)
  \/ \E r \in Req : Commit(r)

SpecHot == InitHot /\ [][NextHot]_vars


\* ---- properties ----

\* request r writes the 2003 response in this step
Succeeds(r) == result[r] = NoResult /\ result'[r] = CodeTransferOK

\* C1: in every reachable committed state every account's balance is >= 0
BalanceNonNegative ==
  \A i \in Ids : accounts[i].exists => accounts[i].balance >= 0

\* C2 as stated: every transfer that returns 2003 lowers the committed balance
\* of its source by exactly amount and raises that of its destination by
\* exactly amount
ExactTransferAnyPair ==
  [][\A r \in Req : Succeeds(r) =>
       /\ accounts'[tr[r].FromAccountID].balance =
            accounts[tr[r].FromAccountID].balance - tr[r].Amount
       /\ accounts'[tr[r].ToAccountID].balance =
            accounts[tr[r].ToAccountID].balance + tr[r].Amount]_vars

\* C2 amended: a transfer that returns 2003 between two different accounts
\* lowers the committed source balance by exactly amount, raises the committed
\* destination balance by exactly amount and keeps their sum; a successful
\* transfer from an account to itself leaves its balance unchanged; no other
\* account changes
ExactTransfer ==
  [][\A r \in Req : Succeeds(r) =>
       /\ tr[r].FromAccountID # tr[r].ToAccountID =>
            /\ accounts'[tr[r].FromAccountID].balance =
                 accounts[tr[r].FromAccountID].balance - tr[r].Amount
            /\ accounts'[tr[r].ToAccountID].balance =
                 accounts[tr[r].ToAccountID].balance + tr[r].Amount
            /\ accounts'[tr[r].FromAccountID].balance + accounts'[tr[r].ToAccountID].balance =
                 accounts[tr[r].FromAccountID].balance + accounts[tr[r].ToAccountID].balance
       /\ tr[r].FromAccountID = tr[r].ToAccountID =>
            accounts'[tr[r].FromAccountID].balance = accounts[tr[r].FromAccountID].balance
       /\ \A i \in Ids \ {tr[r].FromAccountID, tr[r].ToAccountID} :
            accounts'[i] = accounts[i]]_vars

\* a transfer of 2 between two different accounts has returned 2003 and another
\* transfer from an account to itself has returned 2003
ExactTransferWitness ==
  /\ \E r \in Req : /\ result[r] = CodeTransferOK
                    /\ tr[r].FromAccountID # tr[r].ToAccountID
                    /\ tr[r].Amount = 2
  /\ \E r \in Req : /\ result[r] = CodeTransferOK
                    /\ tr[r].FromAccountID = tr[r].ToAccountID

\* C3: of two concurrent transfers of 2 out of account 1 holding 3, exactly one
\* returns 2003, the other returns 1015 and account 1 ends with 1; never both
\* succeed
NoDoubleSpend ==
  (\A r \in Clients : pc[r] = "done") =>
     /\ \E r \in Clients : \A s \in Clients \ {r} :
          /\ result[r] = CodeTransferOK
          /\ result[s] = CodeInsufficientFunds
     /\ accounts[1].balance = 1


\* sum of the amounts of the requests in S
RECURSIVE SumAmounts(_)
SumAmounts(S) ==
  IF S = {} THEN 0
  ELSE LET r == CHOOSE x \in S : TRUE
       IN  tr[r].Amount + SumAmounts(S \ {r})

AllReturned == \A r \in Req : pc[r] = "done"

RowCount(x) == Cardinality({k \in 1..Len(transactions) : transactions[k] = x})
SuccessCount(x) ==
  Cardinality({r \in Req : result[r] = CodeTransferOK /\ LogRow(tr[r]) = x})

\* C5: the log holds exactly one row (from, to, amount) per request that returned
\* 2003 and no other row; a row is appended only in the step that commits the
\* debit and the credit of its request; a step that ends a request with an error
\* appends nothing
OneRowPerSuccess ==
  /\ [](/\ Len(transactions) = Cardinality({r \in Req : result[r] = CodeTransferOK})
        /\ \A r \in Req : RowCount(LogRow(tr[r])) = SuccessCount(LogRow(tr[r])))
  /\ [][/\ transactions' # transactions =>
             \E r \in Req :
               /\ Succeeds(r)
               /\ pc[r] = "commit"
               /\ transactions' = Append(transactions, LogRow(tr[r]))
               /\ staged[r][tr[r].FromAccountID].exists
               /\ staged[r][tr[r].ToAccountID].exists
               /\ accounts'[tr[r].FromAccountID] = staged[r][tr[r].FromAccountID]
               /\ accounts'[tr[r].ToAccountID] = staged[r][tr[r].ToAccountID]
        /\ \A r \in Req : (pc[r] # "done" /\ pc'[r] = "done" /\ ~Succeeds(r)) =>
             transactions' = transactions]_vars

\* C6: an attempt that reads a source row whose balance is below the amount
\* ends the request with 1015 in that step, without a further attempt, and
\* changes no account row and no log row
InsufficientFundsTerminal ==
  [][\A r \in Req :
       ( /\ pc[r] = "read_from"
         /\ pc'[r] # "read_from"
         /\ accounts[tr[r].FromAccountID].exists
         /\ tr[r].Amount > accounts[tr[r].FromAccountID].balance ) =>
       /\ result'[r] = CodeInsufficientFunds
       /\ pc'[r] = "done"
       /\ attempt'[r] = attempt[r]
       /\ accounts' = accounts
       /\ transactions' = transactions
       /\ staged'[r] = NoStage]_vars

\* a second attempt found the source short of the amount and returned 1015
InsufficientFundsWitness ==
  \E r \in Req : /\ result[r] = CodeInsufficientFunds
                 /\ attempt[r] = 2
                 /\ accounts[tr[r].FromAccountID].balance = 1
                 /\ tr[r].Amount = 2

\* C7 as stated: a request whose source or destination account does not exist
\* returns 1014 or 1017
MissingAccountAlwaysNotFound ==
  \A r \in Req :
    ( /\ pc[r] = "done"
      /\ \/ ~accounts[tr[r].FromAccountID].exists
         \/ ~accounts[tr[r].ToAccountID].exists ) =>
    result[r] \in {CodeSourceNotFound, CodeDestNotFound}

\* C7 amended: an attempt that finds no source row returns 1014; an attempt
\* that reaches the read of the destination (it passed the funds check and its
\* debit was applied) and finds no row returns 1017; in both steps no account
\* row and no log row changes and the staged debit is discarded; and a request
\* never returns 2003 while one of its accounts is missing
MissingAccountNotFound ==
  /\ [][\A r \in Req :
          /\ ( /\ pc[r] = "read_from"
               /\ pc'[r] # "read_from"
               /\ ~accounts[tr[r].FromAccountID].exists ) =>
               /\ result'[r] = CodeSourceNotFound
               /\ pc'[r] = "done"
               /\ accounts' = accounts
               /\ transactions' = transactions
          /\ ( /\ pc[r] = "read_to"
               /\ pc'[r] # "read_to"
               /\ ~accounts[tr[r].ToAccountID].exists ) =>
               /\ result'[r] = CodeDestNotFound
               /\ pc'[r] = "done"
               /\ staged[r][tr[r].FromAccountID].exists
               /\ staged'[r] = NoStage
               /\ accounts' = accounts
               /\ transactions' = transactions]_vars
  /\ [](\A r \in Req : result[r] = CodeTransferOK =>
          /\ accounts[tr[r].FromAccountID].exists
          /\ accounts[tr[r].ToAccountID].exists)

\* a request returned 1017: its source exists with the balance it was created
\* with, its destination does not exist
MissingAccountWitness ==
  \E r \in Req : /\ result[r] = CodeDestNotFound
                 /\ accounts[tr[r].FromAccountID].exists
                 /\ accounts[tr[r].FromAccountID].balance = 3
                 /\ tr[r].Amount = 2
                 /\ ~accounts[tr[r].ToAccountID].exists

\* C8: 1016 / 1018 is returned only on the third attempt, by a debit / credit
\* whose version check fails; the attempt counter advances only by one, on a
\* failed version check of a debit or credit; the returning step changes no
\* account row and no log row and discards the staged rows; account and log
\* rows change only in a step in which some request returns 2003
ConflictAfterThreeAttempts ==
  [][/\ \A r \in Req :
          /\ (result[r] = NoResult /\ result'[r] = CodeDebitConflict) =>
               /\ attempt[r] = 3
               /\ pc[r] = "debit"
               /\ accounts[tr[r].FromAccountID].version # from[r].version
          /\ (result[r] = NoResult /\ result'[r] = CodeCreditConflict) =>
               /\ attempt[r] = 3
               /\ pc[r] = "credit"
               /\ Visible(r, tr[r].ToAccountID).version # to[r].version
          /\ (result[r] = NoResult /\ result'[r] \in {CodeDebitConflict, CodeCreditConflict}) =>
               /\ accounts' = accounts
               /\ transactions' = transactions
               /\ staged'[r] = NoStage
               /\ txRows'[r] = << >>
          /\ attempt'[r] # attempt[r] =>
               /\ attempt'[r] = attempt[r] + 1
               /\ \/ pc[r] = "debit" /\ accounts[tr[r].FromAccountID].version # from[r].version
                  \/ pc[r] = "credit" /\ Visible(r, tr[r].ToAccountID).version # to[r].version
          /\ result[r] # NoResult => result'[r] = result[r]
     /\ (accounts' # accounts \/ transactions' # transactions) =>
          \E r \in Req : Succeeds(r)]_vars

\* a request returned 1018 on its third attempt while the balance of its
\* source is what the other requests left
ConflictWitness ==
  \E r \in Req : /\ result[r] = CodeCreditConflict
                 /\ attempt[r] = 3
                 /\ tr[r].FromAccountID = 1
                 /\ accounts[1].balance = HotBalance

\* C9: a request that has left handleTransfer has written exactly one response
EveryRequestAnswered ==
  \A r \in Req : pc[r] = "done" => result[r] # NoResult

\* C10: a new attempt starts only from a debit or credit whose version check
\* failed on attempt 1 or 2; 1014, 1015, 1017, 1019 and 1020 are written on the
\* attempt on which they occur and end the request; a request that has ended
\* stays ended with the same attempt count and response
OnlyConflictsRetry ==
  [][\A r \in Req :
       /\ (attempt[r] > 0 /\ attempt'[r] # attempt[r]) =>
            /\ attempt'[r] = attempt[r] + 1
            /\ attempt[r] < 3
            /\ pc[r] \in {"debit", "credit"}
            /\ pc'[r] = "begin"
            /\ result'[r] = NoResult
            /\ Visible(r, Wanted(r)).version # Expected(r)
       /\ ( /\ result[r] = NoResult
            /\ result'[r] \in {CodeSourceNotFound, CodeInsufficientFunds, CodeDestNotFound,
                               CodeLogFailed, CodeCommitFailed} ) =>
            /\ pc'[r] = "done"
            /\ attempt'[r] = attempt[r]
       /\ pc[r] = "read_from" => pc'[r] \in {"read_from", "debit", "done"}
       /\ pc[r] = "read_to" => pc'[r] \in {"read_to", "credit", "done"}
       /\ pc[r] = "insert" => pc'[r] \in {"insert", "commit", "done"}
       /\ pc[r] = "commit" => pc'[r] \in {"commit", "done"}
       /\ pc[r] = "done" =>
            /\ pc'[r] = "done"
            /\ attempt'[r] = attempt[r]
            /\ result'[r] = result[r]]_vars

\* a request lost the version check of its first attempt to a transfer that
\* committed, and returned 1020 on its second attempt without a third
OnlyConflictsRetryWitness ==
  /\ \E r \in Req : result[r] = CodeCommitFailed /\ attempt[r] = 2
  /\ \E r \in Req : result[r] = CodeTransferOK /\ attempt[r] = 1

\* r and s move money in opposite directions between two different accounts
Opposite(r, s) ==
  /\ r # s
  /\ pc[r] # "idle"
  /\ pc[s] # "idle"
  /\ tr[r].Amount > 0
  /\ tr[s].Amount > 0
  /\ tr[r].FromAccountID # tr[r].ToAccountID
  /\ tr[r].FromAccountID = tr[s].ToAccountID
  /\ tr[r].ToAccountID = tr[s].FromAccountID

\* C11: of two concurrent transfers in opposite directions between the same two
\* accounts, each one that has left handleTransfer has written a response, and
\* it left only after an attempt of its own ended (it was not cut off while its
\* UPDATE waited for the row the other holds)
OppositeTransfersBothAnswered ==
  \A r \in Req, s \in Req :
    (Opposite(r, s) /\ pc[r] = "done") => result[r] # NoResult

\* C12: every committed debit or credit gives the account row a version stamp
\* later than the one it replaces
VersionStrictlyAdvances ==
  [][\A r \in Req : Succeeds(r) =>
       \A i \in {tr[r].FromAccountID, tr[r].ToAccountID} :
         accounts'[i].version > accounts[i].version]_vars

ErrorCodes == {CodeBeginFailed, CodeSourceNotFound, CodeInsufficientFunds,
               CodeDebitConflict, CodeDestNotFound, CodeCreditConflict,
               CodeLogFailed, CodeCommitFailed}

\* C13: a request that leaves handleTransfer without success, from whichever
\* database operation it was in (begin, account read, conditional update, log
\* insert, commit), has written an error response with a numeric code
EveryFailureHasCode ==
  [][\A r \in Req :
       (pc[r] \notin {"idle", "done"} /\ pc'[r] = "done" /\ ~Succeeds(r)) =>
       result'[r] \in ErrorCodes]_vars

\* C14: every row of the transaction log has a strictly positive amount
LogAmountsPositive ==
  \A k \in 1..Len(transactions) : transactions[k].amount > 0

\* C15: a creation whose id already exists answers 1003 and changes no row; a
\* creation answers 2001 only by adding the row of an id that was not there,
\* with the requested balance; no creation ever changes the balance or version
\* of an existing account, whatever transfers are in flight
DuplicateCreateRejected ==
  [][/\ \A id \in Ids, bal \in InitBalances :
          handleCreateAccount(id, bal) =>
            IF accounts[id].exists
              THEN lastCreate' = CodeAccountExists /\ accounts' = accounts
              ELSE /\ lastCreate' = CodeAccountCreated
                   /\ accounts'[id] = Row(bal, now')
                   /\ \A j \in Ids \ {id} : accounts'[j] = accounts[j]
     /\ creates' # creates =>
          /\ \A i \in Ids : accounts[i].exists => accounts'[i] = accounts[i]
          /\ lastCreate' = CodeAccountExists <=> accounts' = accounts
          /\ lastCreate' = CodeAccountCreated <=>
               \E i \in Ids : ~accounts[i].exists /\ accounts'[i].exists]_vars

\* two creations were made, the second of the id the first one added, while a
\* transfer holds a read of that account in an open transaction
DuplicateCreateWitness ==
  /\ creates = 2
  /\ lastCreate = CodeAccountExists
  /\ Cardinality({i \in Ids : accounts[i].exists}) = 1
  /\ \E r \in Req : TxOpen(r) /\ from[r].exists

\* C16: a conditional update that affects 0 rows changes no account row, and
\* one that affects a row finds the account exactly as the attempt read it
\* (balance and version): no other mutation of it committed in between
UpdateOnlyOnUnchangedRow ==
  [][\A r \in Req :
       /\ (pc[r] \in {"debit", "credit"} /\ pc'[r] \in {"begin", "done"}) =>
            accounts' = accounts
       /\ (pc[r] = "debit" /\ pc'[r] = "read_to") =>
            Visible(r, tr[r].FromAccountID) = from[r]
       /\ (pc[r] = "credit" /\ pc'[r] = "insert") =>
            Visible(r, tr[r].ToAccountID) = to[r]]_vars

\* C17: a request has uncommitted writes only inside the one transaction of
\* its current attempt; a transaction is opened only at the start of an
\* attempt, once per attempt; the transaction of a conflicted attempt is rolled
\* back in the step that moves to the next attempt; and whenever a transaction
\* ends without commit (retry, error response, abort) no account row and no
\* log row changes, while a commit publishes exactly the attempt's writes
OneTransactionPerAttempt ==
  /\ [](\A r \in Req : ~TxOpen(r) => staged[r] = NoStage /\ txRows[r] = << >>)
  /\ [][\A r \in Req :
          /\ (TxOpen(r)' /\ ~TxOpen(r)) =>
               pc[r] = "begin" /\ pc'[r] = "read_from" /\ attempt'[r] = attempt[r]
          /\ (pc[r] # "idle" /\ attempt'[r] # attempt[r]) =>
               /\ attempt'[r] = attempt[r] + 1
               /\ TxOpen(r)
               /\ pc'[r] = "begin"
               /\ staged'[r] = NoStage
          /\ (pc[r] # "idle" /\ pc'[r] = "begin" /\ pc[r] # "begin") =>
               attempt'[r] = attempt[r] + 1
          /\ (TxOpen(r) /\ ~TxOpen(r)' /\ ~Succeeds(r)) =>
               accounts' = accounts /\ transactions' = transactions
          /\ Succeeds(r) =>
               /\ pc[r] = "commit"
               /\ \A i \in Ids :
                    accounts'[i] = IF staged[r][i].exists THEN staged[r][i]
                                   ELSE accounts[i]
               /\ transactions' = transactions \o txRows[r]]_vars

\* a second attempt has written its debit after the first attempt's transaction
\* was rolled back on a conflict
OneTransactionWitness ==
  \E r \in Req :
    /\ attempt[r] = 2
    /\ TxOpen(r)
    /\ staged[r][tr[r].FromAccountID].exists

\* log rows appended by the step
NewRows == SubSeq(transactions', Len(transactions) + 1, Len(transactions'))

\* what the log rows say about account i: amounts credited minus amounts debited
RECURSIVE LogDelta(_, _)
LogDelta(rows, i) ==
  IF rows = << >> THEN 0
  ELSE LET h == Head(rows)
       IN  (IF h.to_account = i THEN h.amount ELSE 0)
           - (IF h.from_account = i THEN h.amount ELSE 0)
           + LogDelta(Tail(rows), i)

RECURSIVE SumBalances(_, _)
SumBalances(acc, S) ==
  IF S = {} THEN 0
  ELSE LET i == CHOOSE x \in S : TRUE
       IN  (IF acc[i].exists THEN acc[i].balance ELSE 0) + SumBalances(acc, S \ {i})

\* C18: the log only grows, and in every step the committed balance of each
\* account moves by exactly what the log rows appended in that step credit to
\* it minus what they debit from it (an account enters with its initial
\* balance and no log row); so balance = initial + credits - debits at all
\* times, and the sum of the balances changes only when an account is created
LedgerMatchesLog ==
  [][/\ Len(transactions') >= Len(transactions)
     /\ SubSeq(transactions', 1, Len(transactions)) = transactions
     /\ \A i \in Ids :
          IF accounts[i].exists
            THEN /\ accounts'[i].exists
                 /\ accounts'[i].balance = accounts[i].balance + LogDelta(NewRows, i)
            ELSE LogDelta(NewRows, i) = 0
     /\ \A k \in 1..Len(NewRows) :
          accounts[NewRows[k].from_account].exists /\ accounts[NewRows[k].to_account].exists
     /\ creates' = creates =>
          SumBalances(accounts', Ids) = SumBalances(accounts, Ids)]_vars

\* two transfers are in the log, one of them moved a positive amount from one
\* account to another
LedgerMatchesLogWitness ==
  /\ Len(transactions) = 2
  /\ \E k \in 1..2 :
       /\ transactions[k].from_account # transactions[k].to_account
       /\ transactions[k].amount > 0
       /\ accounts[transactions[k].to_account].balance >= transactions[k].amount

\* C19: in the first attempt of a transfer of a positive amount between two
\* different accounts, a conditional update whose account row is still as the
\* attempt read it (nothing committed on it in between) goes through: the
\* debit is followed by the read of the destination, the credit by the log
\* insert, never by a retry or by the end of the request
NoSpuriousConflict ==
  [][\A r \in Req :
       (/\ attempt[r] = 1
        /\ tr[r].Amount > 0
        /\ tr[r].FromAccountID # tr[r].ToAccountID
        /\ pc'[r] # pc[r]) =>
         /\ (pc[r] = "debit" /\ accounts[tr[r].FromAccountID] = from[r]) =>
              pc'[r] = "read_to"
         /\ (pc[r] = "credit" /\ accounts[tr[r].ToAccountID] = to[r]) =>
              pc'[r] = "insert"]_vars

\* C20: every step of a transfer whose source is its destination goes forward:
\* the funds check passes when the amount is covered, the debit goes through
\* when the committed row is still as read, the read of the destination returns
\* the row the debit wrote (version = the attempt's own stamp, balance less the
\* amount), the credit never conflicts and restores the balance, and the
\* commit leaves the balance as it was and appends one log row with from = to
SelfTransferAccepted ==
  [][\A r \in Req :
       LET id == tr[r].FromAccountID
       IN  (pc[r] # "idle" /\ id = tr[r].ToAccountID /\ pc'[r] # pc[r]) =>
             /\ (pc[r] = "read_from" /\ accounts[id].exists
                   /\ tr[r].Amount <= accounts[id].balance) =>
                  pc'[r] = "debit" /\ from'[r] = accounts[id]
             /\ (pc[r] = "debit" /\ accounts[id] = from[r]) =>
                  pc'[r] = "read_to"
             /\ pc[r] = "read_to" =>
                  /\ pc'[r] = "credit"
                  /\ to'[r] = Row(accounts[id].balance - tr[r].Amount, txStart[r])
             /\ pc[r] = "credit" =>
                  /\ pc'[r] = "insert"
                  /\ staged'[r][id] = Row(accounts[id].balance, txStart[r])
             /\ pc[r] = "insert" => pc'[r] = "commit"
             /\ pc[r] = "commit" =>
                  /\ Succeeds(r)
                  /\ accounts'[id].balance = accounts[id].balance
                  /\ \A j \in Ids \ {id} : accounts'[j] = accounts[j]
                  /\ transactions' = Append(transactions, LogRow(tr[r]))]_vars

\* a self-transfer of a positive amount has succeeded in its first attempt and
\* its row is the last of the log
SelfTransferWitness ==
  \E r \in Req :
    /\ tr[r].FromAccountID = tr[r].ToAccountID
    /\ tr[r].Amount > 0
    /\ result[r] = CodeTransferOK
    /\ attempt[r] = 1
    /\ Len(transactions) > 0
    /\ transactions[Len(transactions)] = LogRow(tr[r])
    /\ accounts[tr[r].FromAccountID].balance \in InitBalances

====
